---- MODULE Spec2Model ----
(***************************************************************************)
(* A model of pouchdb-adapter-node-sqlite.                                  *)
(*                                                                         *)
(* QueueSpec models the TransactionQueue of src/src/transactionQueue.ts:    *)
(* the FIFO of pending operations, the in-flight flag, the setImmediate     *)
(* callback that runs one operation, and the write-transaction wrapper      *)
(* with its BEGIN IMMEDIATE / COMMIT / ROLLBACK statements.                 *)
(*                                                                         *)
(* Spec models the storage engine's tables and the adapter operations of    *)
(* src/src/types.d.ts (the adapter core) and src/src/bulkDocs.ts that read  *)
(* and write them. WriteSpec runs bulk writes from two instances,           *)
(* CompactSpec bulk writes and compaction of obsolete revisions, FeedSpec   *)
(* bulk writes with a continuous _changes subscriber, LocalSpec bulk writes *)
(* and _putLocal, SetupSpec the construction of instances on new and on     *)
(* existing files; QueueLiveSpec and FeedLiveSpec add the fairness of the   *)
(* scheduling. QuerySpec runs bulk writes for the one-shot _changes query   *)
(* with a limit and a filter, CallbackSpec bulk writes and _doCompaction    *)
(* calls with any revision set.                                             *)
(*                                                                         *)
(* CacheSpec models openDB and closeDB of src/unnamed/part_000: the cache   *)
(* of engine handles and queues by database name.                           *)
(***************************************************************************)
EXTENDS Integers, Sequences, FiniteSets, TLC

VARIABLES
    \* ---- TransactionQueue ------------------------------------------------
    queue,        \* TransactionQueue.queue: the pending operations, by id
    inProgress,   \* TransactionQueue.inProgress
    nPushed,      \* number of push/pushReadOnly calls made so far
    readonly,     \* PendingTransaction.readonly of every submitted operation
    pc,           \* where every submitted operation is
    outcome,      \* how the operation's fn ended
    calls,        \* number of tx.execute/commit/rollback calls fn has made
    explicit,     \* fn itself called tx.commit or tx.rollback
    isFinalized,  \* runWriteTransaction's isFinalized, per operation
    isRolledBack, \* runWriteTransaction's isRolledBack, per operation
    stmts,        \* BEGIN IMMEDIATE/COMMIT/ROLLBACK executed for the operation
    settled,      \* how the promise returned by push/pushReadOnly settled
    lastCall,     \* the last call fn made on its transaction handle
    dbInTx,       \* the engine handle has a transaction open
    dbPending,    \* operations whose statements sit in the open transaction
    dbPersisted,  \* operations whose statements were committed
    \* ---- storage engine and adapter --------------------------------------
    db,           \* the engine file: its tables and the AUTOINCREMENT counter
    uuidCount,    \* number of uuid() calls made so far
    isOpen,       \* the adapter instances (handles) that are open
    instanceId,   \* SqlPouch's instanceId, per constructed instance
    last,         \* the last operation: its input, its results, db before
    lastOk,       \* per id, the most recent write _bulkDocs reported ok
    seqLog,       \* the sequence numbers handed out, in write order
    reopened,     \* an instance was opened on the existing file
    compacted,    \* _doCompaction has run with a non-empty revision set
    \* ---- change feed ------------------------------------------------------
    sub,          \* the continuous _changes subscriber registered in Changes:
                  \* opts.since as given (from) and as advanced (since)
    delivered,    \* the changes handed to the subscriber's onChange, in order
    \* ---- openDB / closeDB ------------------------------------------------
    cachedDatabases, \* the module's Map from database name to open result
    opened,       \* the name every engine handle was constructed for
    closedHandles,   \* the engine handles db.close() was called on
    lastOpen      \* the last openDB call: its name, the cache entry it
                  \* found, what it returned

qvars == <<queue, inProgress, nPushed, readonly, pc, outcome, calls, explicit,
           isFinalized, isRolledBack, stmts, settled, lastCall, dbInTx,
           dbPending, dbPersisted>>

dvars == <<db, uuidCount, isOpen, instanceId, last, lastOk, seqLog, reopened, compacted,
           sub, delivered>>

cvars == <<cachedDatabases, opened, closedHandles, lastOpen>>

vars == <<qvars, dvars, cvars>>

\* ---------------------------------------------------------------- bounds
MaxOps == 3      \* push/pushReadOnly calls in one run
MaxCalls == 2    \* calls one fn makes on its transaction handle

OpIds == 1..MaxOps

\* ------------------------------------------------------- TransactionQueue

\* run(): the guard of a dispatch. `if (this.inProgress) return` and
\* `if (this.queue.length)`.
CanDispatchNoFlag(ip, q) == Len(q) > 0
CanDispatch(ip, q) == ~ip /\ Len(q) > 0

\* run(): `const tx = this.queue.shift()`.
ShiftedLast(q) == q[Len(q)]
Shifted(q) == Head(q)

Remaining(q) == Tail(q)

\* run() as called with queue q and flag ip: the flag, the queue and the
\* operation handed to setImmediate (0 when none is).
Run(ip, q) ==
    IF CanDispatch(ip, q)
    THEN [inProgress |-> TRUE, queue |-> Remaining(q), tx |-> Shifted(q)]
    ELSE [inProgress |-> ip, queue |-> q, tx |-> 0]

\* runWriteTransaction: `if (!isFinalized) { txObject.commit() }`.
NeedsAutoCommitNever(fin) == FALSE
NeedsAutoCommit(fin) == ~fin

\* runWriteTransaction: the catch block's `if (!isFinalized)` rollback.
NeedsAutoRollback(fin) == ~fin

\* run(): the finally block's `this.inProgress = false` followed by
\* `if (this.queue.length) this.run()`.
AfterFinishKeepsFlag(q) == Run(TRUE, q)
AfterFinish(q) == Run(FALSE, q)

\* No call has been made on a transaction handle.
NoCall ==
    [op |-> 0, call |-> "none", finalized |-> FALSE, threw |-> FALSE,
     sql |-> FALSE]

\* txObject.execute of runWriteTransaction: `if (isFinalized) throw`.
ExecuteThrowsNever(fin) == FALSE
ExecuteThrows(fin) == fin

\* txObject.commit and txObject.rollback of runWriteTransaction:
\* `if (isFinalized) throw`.
TerminalThrows(fin) == fin

QInit ==
    /\ queue = <<>>
    /\ inProgress = FALSE
    /\ nPushed = 0
    /\ readonly = [i \in OpIds |-> FALSE]
    /\ pc = [i \in OpIds |-> "none"]
    /\ outcome = [i \in OpIds |-> "none"]
    /\ calls = [i \in OpIds |-> 0]
    /\ explicit = [i \in OpIds |-> FALSE]
    /\ isFinalized = [i \in OpIds |-> FALSE]
    /\ isRolledBack = [i \in OpIds |-> FALSE]
    /\ stmts = [i \in OpIds |-> <<>>]
    /\ settled = [i \in OpIds |-> "pending"]
    /\ lastCall = NoCall
    /\ dbInTx = FALSE
    /\ dbPending = {}
    /\ dbPersisted = {}

\* push(fn) / pushReadOnly(fn): append the pending operation, then run().
Enqueue(ro) ==
    /\ nPushed < MaxOps
    /\ LET id == nPushed + 1
           r == Run(inProgress, Append(queue, id))
       IN /\ nPushed' = id
          /\ readonly' = [readonly EXCEPT ![id] = ro]
          /\ inProgress' = r.inProgress
          /\ queue' = r.queue
          /\ pc' = [i \in OpIds |->
                      IF i = r.tx THEN "scheduled"
                      ELSE IF i = id THEN "queued" ELSE pc[i]]
    /\ UNCHANGED <<outcome, calls, explicit, isFinalized, isRolledBack, stmts,
                   settled, dbInTx, dbPending, dbPersisted>>
    /\ UNCHANGED lastCall
    /\ UNCHANGED dvars
    /\ UNCHANGED cvars

Push == Enqueue(FALSE)

PushReadOnly == Enqueue(TRUE)

\* The setImmediate callback of run() starts a read operation:
\* runReadTransaction calls fn with a handle that opens no transaction.
\* fn either throws at once (throws) or is left running.
StartRead(id, throws) ==
    /\ pc[id] = "scheduled"
    /\ readonly[id]
    /\ pc' = [pc EXCEPT ![id] = IF throws THEN "returned" ELSE "fn"]
    /\ outcome' = [outcome EXCEPT ![id] = IF throws THEN "threw" ELSE @]
    /\ UNCHANGED <<queue, inProgress, nPushed, readonly, calls, explicit,
                   isFinalized, isRolledBack, stmts, settled, dbInTx,
                   dbPending, dbPersisted>>
    /\ UNCHANGED lastCall
    /\ UNCHANGED dvars
    /\ UNCHANGED cvars

\* The setImmediate callback of run() starts a write operation:
\* runWriteTransaction executes BEGIN IMMEDIATE (which the engine refuses
\* inside an open transaction, and when another process holds the write
\* lock: busy) and calls fn. When fn throws at the call, the catch block
\* rolls back and rethrows.
StartWrite(id, throws, busy) ==
    /\ pc[id] = "scheduled"
    /\ ~readonly[id]
    /\ IF dbInTx \/ busy
       THEN \* BEGIN IMMEDIATE throws before the try block
            /\ pc' = [pc EXCEPT ![id] = "returned"]
            /\ outcome' = [outcome EXCEPT ![id] = "nobegin"]
            /\ UNCHANGED <<stmts, isFinalized, isRolledBack, dbInTx, dbPending>>
       ELSE IF throws
       THEN /\ pc' = [pc EXCEPT ![id] = "returned"]
            /\ outcome' = [outcome EXCEPT ![id] = "threw"]
            /\ IF NeedsAutoRollback(isFinalized[id])
               THEN /\ stmts' = [stmts EXCEPT ![id] = <<"BEGIN", "ROLLBACK">>]
                    /\ isFinalized' = [isFinalized EXCEPT ![id] = TRUE]
                    /\ isRolledBack' = [isRolledBack EXCEPT ![id] = TRUE]
               ELSE /\ stmts' = [stmts EXCEPT ![id] = <<"BEGIN">>]
                    /\ UNCHANGED <<isFinalized, isRolledBack>>
            /\ dbInTx' = ~NeedsAutoRollback(isFinalized[id])
            /\ dbPending' = {}
       ELSE /\ pc' = [pc EXCEPT ![id] = "fn"]
            /\ stmts' = [stmts EXCEPT ![id] = <<"BEGIN">>]
            /\ dbInTx' = TRUE
            /\ dbPending' = {}
            /\ UNCHANGED <<outcome, isFinalized, isRolledBack>>
    /\ UNCHANGED <<queue, inProgress, nPushed, readonly, calls, explicit,
                   settled, dbPersisted>>
    /\ UNCHANGED lastCall
    /\ UNCHANGED dvars
    /\ UNCHANGED cvars

\* fn calls tx.execute(sql, params). On a write handle the call throws once
\* the transaction is finalized; otherwise the statement runs, inside the
\* open transaction or, without one, in the engine's autocommit mode. On a
\* read handle the statement is a query.
FnExecute(id) ==
    /\ pc[id] = "fn"
    /\ calls[id] < MaxCalls
    /\ calls' = [calls EXCEPT ![id] = @ + 1]
    /\ LET threw == ~readonly[id] /\ ExecuteThrows(isFinalized[id])
       IN /\ lastCall' = [op |-> id, call |-> "execute",
                          finalized |-> isFinalized[id], threw |-> threw,
                          sql |-> ~threw]
          /\ dbPending' = IF ~readonly[id] /\ ~threw /\ dbInTx
                          THEN dbPending \cup {id} ELSE dbPending
          /\ dbPersisted' = IF ~readonly[id] /\ ~threw /\ ~dbInTx
                            THEN dbPersisted \cup {id} ELSE dbPersisted
    /\ UNCHANGED <<queue, inProgress, nPushed, readonly, pc, outcome, explicit,
                   isFinalized, isRolledBack, stmts, settled, dbInTx>>
    /\ UNCHANGED dvars
    /\ UNCHANGED cvars

\* fn calls tx.commit(). The write handle throws when already finalized and
\* otherwise executes COMMIT; the read handle's commit does nothing.
FnCommit(id) ==
    /\ pc[id] = "fn"
    /\ calls[id] < MaxCalls
    /\ calls' = [calls EXCEPT ![id] = @ + 1]
    /\ explicit' = [explicit EXCEPT ![id] = TRUE]
    /\ lastCall' = [op |-> id, call |-> "commit",
                    finalized |-> isFinalized[id],
                    threw |-> ~readonly[id] /\ TerminalThrows(isFinalized[id]),
                    sql |-> ~readonly[id] /\ ~TerminalThrows(isFinalized[id])]
    /\ IF ~readonly[id] /\ ~TerminalThrows(isFinalized[id]) /\ dbInTx
       THEN /\ stmts' = [stmts EXCEPT ![id] = Append(@, "COMMIT")]
            /\ isFinalized' = [isFinalized EXCEPT ![id] = TRUE]
            /\ dbInTx' = FALSE
            /\ dbPersisted' = dbPersisted \cup dbPending
            /\ dbPending' = {}
       ELSE UNCHANGED <<stmts, isFinalized, dbInTx, dbPersisted, dbPending>>
    /\ UNCHANGED <<queue, inProgress, nPushed, readonly, pc, outcome,
                   isRolledBack, settled>>
    /\ UNCHANGED dvars
    /\ UNCHANGED cvars

\* fn calls tx.rollback(). The write handle throws when already finalized
\* and otherwise executes ROLLBACK; the read handle's rollback does nothing.
FnRollback(id) ==
    /\ pc[id] = "fn"
    /\ calls[id] < MaxCalls
    /\ calls' = [calls EXCEPT ![id] = @ + 1]
    /\ explicit' = [explicit EXCEPT ![id] = TRUE]
    /\ lastCall' = [op |-> id, call |-> "rollback",
                    finalized |-> isFinalized[id],
                    threw |-> ~readonly[id] /\ TerminalThrows(isFinalized[id]),
                    sql |-> ~readonly[id] /\ ~TerminalThrows(isFinalized[id])]
    /\ IF ~readonly[id] /\ ~TerminalThrows(isFinalized[id]) /\ dbInTx
       THEN /\ stmts' = [stmts EXCEPT ![id] = Append(@, "ROLLBACK")]
            /\ isFinalized' = [isFinalized EXCEPT ![id] = TRUE]
            /\ isRolledBack' = [isRolledBack EXCEPT ![id] = TRUE]
            /\ dbInTx' = FALSE
            /\ dbPending' = {}
       ELSE UNCHANGED <<stmts, isFinalized, isRolledBack, dbInTx, dbPending>>
    /\ UNCHANGED <<queue, inProgress, nPushed, readonly, pc, outcome, settled,
                   dbPersisted>>
    /\ UNCHANGED dvars
    /\ UNCHANGED cvars

\* fn's promise fulfils: push's `fn(tx).then(resolve, reject)` resolves the
\* caller's promise, and the promise that start returns fulfils.
FnReturn(id) ==
    /\ pc[id] = "fn"
    /\ pc' = [pc EXCEPT ![id] = "returned"]
    /\ outcome' = [outcome EXCEPT ![id] = "fulfilled"]
    /\ settled' = [settled EXCEPT ![id] = "resolved"]
    /\ UNCHANGED <<queue, inProgress, nPushed, readonly, calls, explicit,
                   isFinalized, isRolledBack, stmts, dbInTx, dbPending,
                   dbPersisted>>
    /\ UNCHANGED lastCall
    /\ UNCHANGED dvars
    /\ UNCHANGED cvars

\* fn's promise rejects: push's `fn(tx).then(resolve, reject)` rejects the
\* caller's promise; the promise that start returns is the one `then`
\* returns, and it fulfils because the rejection handler returns normally.
FnReject(id) ==
    /\ pc[id] = "fn"
    /\ pc' = [pc EXCEPT ![id] = "returned"]
    /\ outcome' = [outcome EXCEPT ![id] = "rejected"]
    /\ settled' = [settled EXCEPT ![id] = "rejected"]
    /\ UNCHANGED <<queue, inProgress, nPushed, readonly, calls, explicit,
                   isFinalized, isRolledBack, stmts, dbInTx, dbPending,
                   dbPersisted>>
    /\ UNCHANGED lastCall
    /\ UNCHANGED dvars
    /\ UNCHANGED cvars

\* The continuation of `await fn(txObject)` and the finally block of run():
\* a write whose start promise fulfilled is committed unless finalized; when
\* the engine fails the COMMIT (commitFails) the catch block rolls back and
\* rethrows; then tx.finish(), inProgress = false and, if the queue is not
\* empty, run().
Finish(id, commitFails) ==
    /\ pc[id] = "returned"
    /\ LET commits == /\ ~readonly[id]
                      /\ outcome[id] \in {"fulfilled", "rejected"}
                      /\ NeedsAutoCommit(isFinalized[id])
                      /\ dbInTx
           r == AfterFinish(queue)
       IN /\ IF commits /\ ~commitFails
             THEN /\ stmts' = [stmts EXCEPT ![id] = Append(@, "COMMIT")]
                  /\ isFinalized' = [isFinalized EXCEPT ![id] = TRUE]
                  /\ dbInTx' = FALSE
                  /\ dbPersisted' = dbPersisted \cup dbPending
                  /\ dbPending' = {}
                  /\ UNCHANGED <<outcome, isRolledBack>>
             ELSE IF commits
             THEN /\ stmts' = [stmts EXCEPT ![id] =
                                  @ \o <<"COMMIT failed", "ROLLBACK">>]
                  /\ isFinalized' = [isFinalized EXCEPT ![id] = TRUE]
                  /\ isRolledBack' = [isRolledBack EXCEPT ![id] = TRUE]
                  /\ outcome' = [outcome EXCEPT ![id] = "commitfailed"]
                  /\ dbInTx' = FALSE
                  /\ dbPending' = {}
                  /\ UNCHANGED dbPersisted
             ELSE UNCHANGED <<stmts, isFinalized, dbInTx, dbPersisted,
                              dbPending, outcome, isRolledBack>>
          /\ inProgress' = r.inProgress
          /\ queue' = r.queue
          /\ pc' = [i \in OpIds |->
                      IF i = id THEN "done"
                      ELSE IF i = r.tx THEN "scheduled" ELSE pc[i]]
    /\ UNCHANGED <<nPushed, readonly, calls, explicit, settled>>
    /\ UNCHANGED lastCall
    /\ UNCHANGED dvars
    /\ UNCHANGED cvars

QNext ==
    \/ Push
    \/ PushReadOnly
    \/ \E id \in OpIds, throws \in BOOLEAN : StartRead(id, throws)
    \/ \E id \in OpIds, throws \in BOOLEAN, busy \in BOOLEAN :
          StartWrite(id, throws, busy)
    \/ \E id \in OpIds : FnExecute(id)
    \/ \E id \in OpIds : FnCommit(id)
    \/ \E id \in OpIds : FnRollback(id)
    \/ \E id \in OpIds : FnReturn(id)
    \/ \E id \in OpIds : FnReject(id)
    \/ \E id \in OpIds, commitFails \in BOOLEAN : Finish(id, commitFails)


\* ------------------------------------------------------ openDB / closeDB

MaxOpens == 4    \* engine handles constructed in one run

DbNames == {"x", "y"}

\* No entry under a name, and the call that has not been made.
NoResult == [absent |-> TRUE]
NoOpen == [name |-> "none", found |-> NoResult, result |-> NoResult,
           closed |-> FALSE]

CInit ==
    /\ cachedDatabases = [n \in DbNames |-> NoResult]
    /\ opened = <<>>
    /\ closedHandles = {}
    /\ lastOpen = NoOpen

\* cachedDatabases.get(name).
CacheGetMiss(cache, name) == NoResult
CacheGet(cache, name) == cache[name]

\* openDBSafely(opts): `new Database(name, dbOptions)` and
\* `new TransactionQueue(db)`, handle and queue k; or the error the
\* constructor threw.
openDBSafely(k, fails) ==
    IF fails THEN [error |-> TRUE] ELSE [db |-> k, transactionQueue |-> k]

\* openDB(opts): the cached result of the name, or the result of
\* openDBSafely, which is cached.
openDB(name, fails) ==
    /\ Len(opened) < MaxOpens
    /\ LET found == CacheGet(cachedDatabases, name)
           result == IF found = NoResult
                     THEN openDBSafely(Len(opened) + 1, fails)
                     ELSE found
       IN /\ cachedDatabases' = [cachedDatabases EXCEPT ![name] = result]
          /\ opened' = IF found = NoResult /\ ~fails
                       THEN Append(opened, name) ELSE opened
          /\ lastOpen' = [name |-> name, found |-> cachedDatabases[name],
                          result |-> result,
                          closed |-> IF "db" \in DOMAIN result
                                     THEN result.db \in closedHandles
                                     ELSE FALSE]
    /\ UNCHANGED closedHandles
    /\ UNCHANGED qvars
    /\ UNCHANGED dvars

\* closeDB(name): close the cached handle, if any, and delete the entry.
closeDB(name) ==
    /\ LET cachedResult == cachedDatabases[name]
       IN IF cachedResult # NoResult
          THEN /\ closedHandles' =
                     IF "db" \in DOMAIN cachedResult
                     THEN closedHandles \cup {cachedResult.db}
                     ELSE closedHandles
               /\ cachedDatabases' = [cachedDatabases EXCEPT ![name] = NoResult]
          ELSE UNCHANGED <<closedHandles, cachedDatabases>>
    /\ UNCHANGED <<opened, lastOpen>>
    /\ UNCHANGED qvars
    /\ UNCHANGED dvars

\* ------------------------------------------------- storage: data and tables
MaxSeq == 3      \* by-sequence rows inserted in one run
MaxBatch == 2    \* documents in one _bulkDocs request
MaxLocalRev == 3 \* the largest N of a local revision 0-N _putLocal writes

Handles == {1, 2}
DocIds == {"a", "b"}
LocalIds == {"_local/x"}
Ids == DocIds \cup LocalIds
Values == {1, 2}
Digests == {"md5-1"}

\* isLocalId(id): the id lies under the reserved prefix.
isLocalIdNever(id) == FALSE
isLocalId(id) == id \in LocalIds

\* A revision '<generation>-<hash>' is the pair <<generation, hash>>. The
\* hashes uuid() returns are 1, 2, ...; hash 0 is one no uuid() call returns.
NoRev == <<>>
FakeRev == <<3, 0>>
NULL == "NULL"
NoRow == [absent |-> TRUE]

\* `docInfo.metadata.rev = '0-1'` for a local id with no stored row.
LocalFirstRev == <<0, 1>>

\* An attachment of a request document: inline data (stub FALSE) with the
\* digest of its bytes, or a stub naming a digest.
Attachment(stub, digest) == [stub |-> stub, digest |-> digest]

\* A request document: _id, _rev (NoRev when absent), _deleted, a value
\* field and _attachments. A deletion carries nothing else.
Doc(id, rev, deleted, value, atts) ==
    [id |-> id, rev |-> rev, deleted |-> deleted, value |-> value, atts |-> atts]

\* The version of the schema this build of the adapter writes.
ADAPTER_VERSION == 2

\* createInitialSchema: the tables and the indexes, in the order of their
\* CREATE statements.
SchemaObjects ==
    <<"metadata-store", "attach-store", "attach-seq-store", "document-store",
      "by-sequence", "local-store",
      "attach-seq-seq-idx", "attach-seq-digest-idx", "doc-winningseq-idx",
      "by-seq-deleted-idx", "by-seq-doc-id-rev">>

\* The db_version column of the metadata table, which a table created by
\* createInitialSchema has.
VersionColumn == "metadata-store.db_version"

\* instanceId = uuid(): the n-th uuid as an instance id; NoDbid is the
\* instanceId of an instance that assigned none.
Dbid(n) == <<n>>
NoDbid == <<>>

\* The uuid() the creation of the store of an initial state returned.
FirstDbid == Dbid(0)

\* The row createInitialSchema inserts into the metadata table.
MetaRow(dbid, version) == [dbid |-> dbid, db_version |-> version]

\* The file new Database(dbPath) creates: no table, no index, no row.
BlankDb ==
    [docStore |-> [id \in Ids |-> NoRow],
     bySeq |-> {},
     seq |-> 0,
     localStore |-> [id \in LocalIds |-> NoRow],
     attachStore |-> {},
     attachSeq |-> {},
     schema |-> {},
     meta |-> <<>>]

\* The file after createInitialSchema: the six tables, empty but for the
\* metadata row, and the five indexes; seq is the AUTOINCREMENT counter of
\* by-sequence (sqlite_sequence).
EmptyDb ==
    [BlankDb EXCEPT
        !.schema = {SchemaObjects[k] : k \in 1..Len(SchemaObjects)}
                       \cup {VersionColumn},
        !.meta = <<MetaRow(FirstDbid, ADAPTER_VERSION)>>]

SetMax(S) == IF S = {} THEN 0 ELSE CHOOSE x \in S : \A y \in S : y <= x

\* by-sequence.seq is INTEGER PRIMARY KEY AUTOINCREMENT: the next rowid is
\* one more than the largest the table ever held.
NextSeqMaxRowid(t) == SetMax({r.seq : r \in t.bySeq}) + 1
NextSeq(t) == t.seq + 1

\* The revisions a caller may supply for id: none, the stored one, or one
\* that is not stored.
StoredRev(t, id) ==
    IF isLocalId(id)
    THEN (IF t.localStore[id] = NoRow THEN NoRev ELSE t.localStore[id].rev)
    ELSE (IF t.docStore[id] = NoRow THEN NoRev ELSE t.docStore[id].rev)

SuppliedRevs(t, id) == {NoRev, FakeRev} \cup {StoredRev(t, id)}

\* What a request document carries besides _id and _rev: a deletion, a
\* value, or a value with one inline attachment.
Contents ==
    {[deleted |-> TRUE, value |-> 0, atts |-> <<>>]}
    \cup {[deleted |-> FALSE, value |-> v, atts |-> <<>>] : v \in Values}
    \cup {[deleted |-> FALSE, value |-> 1, atts |-> <<Attachment(FALSE, d)>>] :
             d \in Digests}

\* The contents without attachments and with one value.
PlainContents == {c \in Contents : c.atts = <<>> /\ c.value \in {0, 1}}

RequestDocs(t, ids, contents) ==
    UNION {{Doc(id, rev, c.deleted, c.value, c.atts) :
               rev \in SuppliedRevs(t, id), c \in contents} : id \in ids}

Batches(t, ids, contents) ==
    UNION {[1..n -> RequestDocs(t, ids, contents)] : n \in 0..MaxBatch}

\* ------------------------------------------------------------- _bulkDocs

\* bulkDocs, the prefetch loop: the stored metadata of the document's id
\* and the conflict recorded in docInfoErrors.
Prefetch(t, doc) ==
    IF isLocalId(doc.id)
    THEN [data |-> doc,
          metadata |-> [id |-> doc.id,
                        rev |-> IF t.localStore[doc.id] = NoRow
                                THEN LocalFirstRev
                                ELSE t.localStore[doc.id].rev],
          error |-> FALSE]
    ELSE IF t.docStore[doc.id] # NoRow
    THEN [data |-> doc,
          metadata |-> [id |-> t.docStore[doc.id].json.id,
                        rev |-> t.docStore[doc.id].json.rev],
          error |-> doc.rev # NoRev /\ doc.rev # t.docStore[doc.id].json.rev]
    ELSE [data |-> doc,
          metadata |-> [id |-> doc.id, rev |-> NoRev],
          error |-> FALSE]

\* insertDoc: the new revision, from the prefetched revision and a uuid.
NewRevSameGeneration(metaRev, hash) ==
    IF metaRev # NoRev THEN <<metaRev[1], hash>> ELSE <<1, hash>>
NewRev(metaRev, hash) ==
    IF metaRev # NoRev THEN <<metaRev[1] + 1, hash>> ELSE <<1, hash>>

\* insertDoc: the body stored in by-sequence.json: the document without _id
\* and _rev, its attachments reduced to stubs.
StoredJson(doc) ==
    [value |-> doc.value,
     attachments |-> [k \in 1..Len(doc.atts) |-> doc.atts[k].digest]]

\* saveAttachment for the attachments k.. of doc: INSERT OR IGNORE into the
\* attachment table, INSERT into the link table, whose unique index on
\* (digest, seq) makes a second link of the same digest fail; the failure
\* is passed to checkDone, which counts it like a success.
RECURSIVE SaveAttachments(_, _, _, _)
SaveAttachments(t, atts, seq, k) ==
    IF k > Len(atts) THEN [t |-> t, failed |-> FALSE]
    ELSE IF atts[k].stub THEN SaveAttachments(t, atts, seq, k + 1)
    ELSE LET d == atts[k].digest
             dup == <<d, seq>> \in t.attachSeq
             t1 == [t EXCEPT !.attachStore = @ \cup {d},
                             !.attachSeq = @ \cup {<<d, seq>>}]
             rest == SaveAttachments(t1, atts, seq, k + 1)
         IN [t |-> rest.t, failed |-> dup \/ rest.failed]

\* insertDoc(docInfo, ...): the by-sequence INSERT, then for a local id the
\* INSERT OR REPLACE into the local table and return; otherwise the UPDATE
\* (isUpdate) or INSERT of the document row, whose unique id makes the
\* INSERT fail for an id already stored, and the attachments. An exception
\* is caught and handed to the callback. Yields the tables, the docInfo and
\* whether a statement failed.
InsertDoc(t, info, hash) ==
    LET doc == info.data
        id == doc.id
        isUpdate == info.metadata.rev # NoRev
        newRev == NewRev(info.metadata.rev, hash)
        seq == NextSeq(t)
        row == [seq |-> seq,
                doc_id |-> IF isLocalId(id) THEN NULL ELSE id,
                rev |-> newRev,
                json |-> StoredJson(doc),
                deleted |-> doc.deleted]
        t1 == [t EXCEPT !.bySeq = @ \cup {row}, !.seq = seq]
        info1 == [info EXCEPT !.metadata.rev = newRev]
        docRow == [json |-> [id |-> id,
                             rev_tree |-> [pos |-> 1, hash |-> newRev[2],
                                           status |-> "available"],
                             rev |-> newRev,
                             deleted |-> doc.deleted,
                             seq |-> seq],
                   winningseq |-> seq,
                   max_seq |-> seq,
                   rev |-> newRev]
    IN IF isLocalId(id)
       THEN [t |-> [t1 EXCEPT !.localStore[id] =
                        [rev |-> newRev, json |-> StoredJson(doc)]],
             info |-> info,
             failed |-> FALSE]
       ELSE IF ~isUpdate /\ t1.docStore[id] # NoRow
       THEN [t |-> t1, info |-> info1, failed |-> TRUE]
       ELSE LET t2 == [t1 EXCEPT !.docStore[id] = docRow]
                saved == SaveAttachments(t2, doc.atts, seq, 1)
            IN [t |-> saved.t, info |-> info1, failed |-> saved.failed]

\* processDocs: insertDoc for every docInfo in input order, whatever the
\* prefetch recorded for it and whatever insertDoc hands to the callback.
RECURSIVE ProcessDocsStopAtConflict(_, _, _, _, _, _)
ProcessDocsStopAtConflict(t, infos, i, hash, failed, seqs) ==
    IF i > Len(infos) \/ infos[i].error
    THEN [t |-> t, infos |-> infos, failed |-> failed, seqs |-> seqs]
    ELSE LET r == InsertDoc(t, infos[i], hash + 1)
             entry == [seq |-> NextSeq(t),
                       maxBefore |-> SetMax({x.seq : x \in t.bySeq})]
         IN ProcessDocsStopAtConflict(r.t, [infos EXCEPT ![i] = r.info],
                                      i + 1, hash + 1, failed \/ r.failed,
                                      Append(seqs, entry))
RECURSIVE ProcessDocs(_, _, _, _, _, _)
ProcessDocs(t, infos, i, hash, failed, seqs) ==
    IF i > Len(infos)
    THEN [t |-> t, infos |-> infos, failed |-> failed, seqs |-> seqs]
    ELSE LET r == InsertDoc(t, infos[i], hash + 1)
             entry == [seq |-> NextSeq(t),
                       maxBefore |-> SetMax({x.seq : x \in t.bySeq})]
         IN ProcessDocs(r.t, [infos EXCEPT ![i] = r.info], i + 1, hash + 1,
                        failed \/ r.failed, Append(seqs, entry))

\* complete(): one result per docInfo, the recorded error or ok with the
\* id and revision of the docInfo's metadata.
ResultsReversedErrors(prefetched, infos) ==
    [i \in 1..Len(infos) |->
        IF prefetched[Len(infos) + 1 - i].error
        THEN [ok |-> FALSE, error |-> "conflict"]
        ELSE [ok |-> TRUE, id |-> infos[i].metadata.id,
              rev |-> infos[i].metadata.rev]]
Results(prefetched, infos) ==
    [i \in 1..Len(infos) |->
        IF prefetched[i].error
        THEN [ok |-> FALSE, error |-> "conflict"]
        ELSE [ok |-> TRUE, id |-> infos[i].metadata.id,
              rev |-> infos[i].metadata.rev]]

\* The most recent write reported ok, per document id, after this request.
RECURSIVE RecordOk(_, _, _, _, _)
RecordOk(ok, h, docs, results, i) ==
    IF i > Len(docs) THEN ok
    ELSE RecordOk(IF results[i].ok /\ ~isLocalId(docs[i].id)
                  THEN [ok EXCEPT ![docs[i].id] =
                            [rev |-> results[i].rev,
                             json |-> StoredJson(docs[i]),
                             deleted |-> docs[i].deleted,
                             handle |-> h]]
                  ELSE ok,
                  h, docs, results, i + 1)

\* No continuous _changes call has registered a listener.
NoSub ==
    [active |-> FALSE, from |-> 0, since |-> 0, pending |-> FALSE,
     inline |-> FALSE]

\* Changes.notify(api._name): the listener registered under the name, if
\* there is one, is told to query again.
NotifyNever(s) == s
Notify(s) == IF s.active THEN [s EXCEPT !.pending = TRUE] ELSE s

\* api._bulkDocs(req) on handle h: the whole request runs synchronously
\* inside db.transaction(fn)(), which commits because fn returns normally.
\* complete() runs inside the transaction function: Changes.notify and the
\* caller's callback come before the COMMIT.
BulkDocs(h, docs) ==
    /\ isOpen[h]
    /\ db.seq + Len(docs) <= MaxSeq
    /\ \E prefetched \in {[i \in 1..Len(docs) |-> Prefetch(db, docs[i])]} :
       \E out \in {ProcessDocs(db, prefetched, 1, uuidCount, FALSE, <<>>)} :
       \E results \in {Results(prefetched, out.infos)} :
          /\ db' = out.t
          /\ uuidCount' = uuidCount + Len(docs)
          /\ last' = [op |-> "bulkDocs", handle |-> h, docs |-> docs,
                      results |-> results, failed |-> out.failed,
                      preOk |-> lastOk, pre |-> db,
                      events |-> <<"notify", "callback", "COMMIT">>,
                      docId |-> NULL, revs |-> {},
                      error |-> FALSE, runs |-> FALSE, again |-> FALSE]
          /\ sub' = Notify(sub)
          /\ lastOk' = RecordOk(lastOk, h, docs, results, 1)
          /\ seqLog' = seqLog \o
                [k \in 1..Len(out.seqs) |->
                    [seq |-> out.seqs[k].seq,
                     maxBefore |-> out.seqs[k].maxBefore,
                     reopened |-> reopened]]
    /\ UNCHANGED <<isOpen, instanceId, reopened, compacted, delivered>>
    /\ UNCHANGED qvars
    /\ UNCHANGED cvars

\* ---------------------------------------------------------------- _get

NotFound == [error |-> "not_found"]

\* api._get(id, {}) : the join of the document row with the by-sequence row
\* of its winning sequence; missing without a row, deleted when the row's
\* deleted flag is set.
Get(t, id) ==
    LET rows == {r \in t.bySeq :
                    /\ t.docStore[id] # NoRow
                    /\ r.seq = t.docStore[id].winningseq}
    IN IF rows = {} THEN NotFound
       ELSE LET item == CHOOSE r \in rows : TRUE
            IN IF item.deleted THEN NotFound
               ELSE [rev |-> item.rev, json |-> item.json]

\* api._get(id, {rev}): the join of the document row with the by-sequence
\* rows of the id, WHERE doc_id = id AND rev = rev; missing without a row,
\* and a deleted revision is returned like any other.
GetRevWinningOnly(t, id, rev) == IF Get(t, id) # NotFound /\ Get(t, id).rev = rev
                                 THEN Get(t, id) ELSE NotFound
GetRev(t, id, rev) ==
    LET rows == {r \in t.bySeq :
                    /\ t.docStore[id] # NoRow
                    /\ r.doc_id = id
                    /\ r.rev = rev}
    IN IF rows = {} THEN NotFound
       ELSE LET item == CHOOSE r \in rows : TRUE
            IN [rev |-> item.rev, json |-> item.json]

\* ------------------------------------------------------------ _allDocs

\* The ids in the order of ORDER BY id ASC.
SortedIds == <<"_local/x", "a", "b">>

\* api._allDocs({}): the document rows joined with the by-sequence rows ON
\* seq = winningseq, WHERE deleted = 0, ORDER BY id ASC, each as
\* {id, key, value: {rev}} with the id of the stored metadata.
AllDocs(t) ==
    LET joined(id) ==
            {r \in t.bySeq :
                /\ t.docStore[id] # NoRow
                /\ r.seq = t.docStore[id].winningseq
                /\ ~r.deleted}
        ids == SelectSeq(SortedIds, LAMBDA id : joined(id) # {})
    IN [k \in 1..Len(ids) |->
           [id |-> t.docStore[ids[k]].json.id,
            key |-> t.docStore[ids[k]].json.id,
            rev |-> (CHOOSE r \in joined(ids[k]) : TRUE).rev]]

\* getMaxSeq(): SELECT MAX(seq) FROM by-sequence, 0 for an empty table; it
\* is the update_seq api._info reports.
getMaxSeq(t) == SetMax({r.seq : r \in t.bySeq})

\* ------------------------------------------------------------ _putLocal

\* api._putLocal(doc) on handle h. Without _rev: newRev = '0-1' and an
\* INSERT, which the UNIQUE id makes throw for a stored id. With _rev:
\* newRev = '0-' + (parseInt(hash part of _rev) + 1) and an UPDATE WHERE
\* id = ? AND rev = ?, a Conflict when it changes no row. (The hash parts of
\* the model are numerals.)
PutLocal(h, doc) ==
    /\ isOpen[h]
    /\ LET oldRev == doc.rev
           newRev == IF oldRev = NoRev THEN LocalFirstRev
                     ELSE <<0, oldRev[2] + 1>>
           row == db.localStore[doc.id]
           changes == IF oldRev = NoRev THEN row = NoRow
                      ELSE row # NoRow /\ row.rev = oldRev
       IN /\ newRev[2] <= MaxLocalRev
          /\ db' = IF changes
                   THEN [db EXCEPT !.localStore[doc.id] =
                            [rev |-> newRev, json |-> StoredJson(doc)]]
                   ELSE db
          /\ last' = [op |-> "putLocal", handle |-> h, docs |-> <<doc>>,
                      results |-> <<IF changes
                                    THEN [ok |-> TRUE, id |-> doc.id,
                                          rev |-> newRev]
                                    ELSE [ok |-> FALSE, error |-> "conflict"]>>,
                      failed |-> FALSE, preOk |-> lastOk, pre |-> db,
                      events |-> <<>>, docId |-> NULL, revs |-> {},
                      error |-> ~changes, runs |-> FALSE, again |-> FALSE]
    /\ UNCHANGED <<uuidCount, isOpen, instanceId, lastOk, seqLog, reopened,
                   compacted, sub, delivered>>
    /\ UNCHANGED qvars
    /\ UNCHANGED cvars

\* -------------------------------------------------------- _doCompaction

\* compactRevs(revs, docId, db): one DELETE with 1 + 2n placeholders and
\* 3n arguments, issued through db.run. It deletes the rows of docId whose
\* rev is in revs when n = 1 and the handle has a run method (runs); in
\* every other case the call throws and nothing is deleted.
compactRevsAnyRev(t, revs, docId, runs) ==
    IF runs /\ Cardinality(revs) = 1
    THEN [t EXCEPT !.bySeq = {r \in @ : r.doc_id # docId}]
    ELSE t
compactRevs(t, revs, docId, runs) ==
    IF runs /\ Cardinality(revs) = 1
    THEN [t EXCEPT !.bySeq = {r \in @ : ~(r.doc_id = docId /\ r.rev \in revs)}]
    ELSE t

\* compactRevs throws unless db.run exists and binds one argument to every
\* placeholder; a DELETE that matches no row does not throw.
compactRevsThrowsOnNoRow(t, revs, docId, runs) ==
    \/ ~(runs /\ Cardinality(revs) = 1)
    \/ ~\E r \in t.bySeq : r.doc_id = docId /\ r.rev \in revs
compactRevsThrows(t, revs, docId, runs) ==
    ~(runs /\ Cardinality(revs) = 1)

\* api._doCompaction(docId, revs) on handle h. An empty revs calls back at
\* once, without a transaction. Otherwise, inside db.transaction, mark the
\* tree nodes named in revs as missing, UPDATE the document row's json, then
\* compactRevs; an exception (reading the json of a document row that does
\* not exist, or compactRevs) is caught inside the transaction function,
\* which therefore commits what ran before it, and is handed to the
\* callback (error) before the callback is called without one.
DoCompaction(h, docId, revs, runs) ==
    /\ isOpen[h]
    /\ LET row == db.docStore[docId]
           tree == row.json.rev_tree
           marked == IF <<tree.pos, tree.hash>> \in revs
                     THEN [row EXCEPT !.json.rev_tree.status = "missing"]
                     ELSE row
       IN IF revs = {} \/ row = NoRow
          THEN db' = db
          ELSE db' = compactRevs([db EXCEPT !.docStore[docId] = marked],
                                 revs, docId, runs)
    /\ LET error == /\ revs # {}
                    /\ \/ db.docStore[docId] = NoRow
                       \/ compactRevsThrows(db, revs, docId, runs)
       IN last' = [op |-> "doCompaction", handle |-> h, docs |-> <<>>,
                   results |-> <<>>, failed |-> FALSE, preOk |-> lastOk,
                   pre |-> EmptyDb,
                   events |-> IF revs = {} THEN <<"callback">>
                              ELSE IF error
                              THEN <<"callback(err)", "COMMIT", "callback">>
                              ELSE <<"COMMIT", "callback">>,
                   docId |-> docId,
                   revs |-> revs,
                   error |-> error,
                   runs |-> runs,
                   again |-> /\ last.op = "doCompaction"
                             /\ last.docId = docId
                             /\ last.revs = revs
                             /\ last.runs = runs]
    /\ compacted' = (compacted \/ revs # {})
    /\ UNCHANGED <<uuidCount, isOpen, instanceId, lastOk, seqLog, reopened, sub,
                   delivered>>
    /\ UNCHANGED qvars
    /\ UNCHANGED cvars

CompactableRevs(t, docId) ==
    {S \in SUBSET ({r.rev : r \in {x \in t.bySeq : x.doc_id = docId}}
                      \cup {FakeRev}) :
        Cardinality(S) \in {1, 2}}

\* ---------------------------------------------------------- open / close

\* api._close on handle h: db.close().
Close(h) ==
    /\ isOpen[h]
    /\ isOpen' = [isOpen EXCEPT ![h] = FALSE]
    /\ UNCHANGED <<db, uuidCount, instanceId, last, lastOk, seqLog, reopened,
                   compacted, sub, delivered>>
    /\ UNCHANGED qvars
    /\ UNCHANGED cvars

\* fetchVersion: the version handed to onGetVersion: 0 without a metadata
\* table, 1 for a table without the db_version column, otherwise the
\* db_version of the first row, 0 when there is no row or it holds none.
fetchVersionTableNotFound(t) == 0
fetchVersion(t) ==
    IF "metadata-store" \notin t.schema THEN 0
    ELSE IF VersionColumn \notin t.schema THEN 1
    ELSE IF t.meta = <<>> THEN 0
    ELSE t.meta[1].db_version

\* createInitialSchema: the CREATE statements in order, then uuid() and the
\* INSERT of the metadata row. failAt = 0: every statement runs; failAt = k:
\* statement k throws, the statements before it have run.
createInitialSchema(t, hash, failAt) ==
    LET n == Len(SchemaObjects)
        ran == IF failAt = 0 THEN n + 1 ELSE failAt - 1
        created == {SchemaObjects[k] : k \in {j \in 1..n : j <= ran}}
                   \cup (IF ran >= 1 THEN {VersionColumn} ELSE {})
        called == failAt = 0 \/ failAt = n + 1
    IN [t |-> [t EXCEPT !.schema = @ \cup created,
                        !.meta = IF ran = n + 1
                                 THEN Append(@, MetaRow(Dbid(hash + 1), ADAPTER_VERSION))
                                 ELSE @],
        instanceId |-> IF called THEN Dbid(hash + 1) ELSE NoDbid,
        uuids |-> IF called THEN 1 ELSE 0,
        threw |-> failAt # 0]

\* runMigrations(dbVersion): UPDATE db_version when it is older than the
\* adapter's, then instanceId is the dbid of the first metadata row.
runMigrations(t, dbVersion) ==
    [t |-> IF dbVersion < ADAPTER_VERSION
           THEN [t EXCEPT !.meta = [k \in 1..Len(@) |->
                                      [@[k] EXCEPT !.db_version = ADAPTER_VERSION]]]
           ELSE t,
     instanceId |-> t.meta[1].dbid, uuids |-> 0, threw |-> FALSE]

\* onGetVersion(dbVersion), after fetchVersion's ALTER TABLE ADD COLUMN for
\* a table without the db_version column.
onGetVersion(t, hash, failAt) ==
    IF fetchVersion(t) = 0
    THEN createInitialSchema(t, hash, failAt)
    ELSE runMigrations([t EXCEPT !.schema = @ \cup {VersionColumn}],
                       fetchVersion(t))

\* setup: db.transaction(fn)() commits when fn returns and rolls back when
\* it throws; the exception leaves setup.
setupNoTransaction(t, hash, failAt) == onGetVersion(t, hash, failAt)
setup(t, hash, failAt) ==
    LET r == onGetVersion(t, hash, failAt)
    IN IF r.threw THEN [r EXCEPT !.t = t] ELSE r

\* SQLite3Pouch(opts, callback) for handle h: new Database(dbPath), setup,
\* callback(null), then the assignments of api._id, api._bulkDocs, ...; an
\* exception out of setup skips the assignments and is caught by
\* SQLite3Pouch, which hands it to the callback.
SqlPouch(h, failAt) ==
    /\ ~isOpen[h]
    /\ \E r \in {setup(db, uuidCount, failAt)} :
          /\ db' = r.t
          /\ uuidCount' = uuidCount + r.uuids
          /\ isOpen' = [isOpen EXCEPT ![h] = ~r.threw]
          /\ instanceId' = [instanceId EXCEPT ![h] = r.instanceId]
          /\ last' = [op |-> "open", handle |-> h, docs |-> <<>>,
                      results |-> <<>>, failed |-> FALSE, preOk |-> lastOk,
                      pre |-> db, events |-> <<>>, docId |-> NULL,
                      revs |-> {}, error |-> r.threw, runs |-> FALSE, again |-> FALSE]
    /\ reopened' = (reopened \/ fetchVersion(db) # 0)
    /\ UNCHANGED <<lastOk, seqLog, compacted, sub, delivered>>
    /\ UNCHANGED qvars
    /\ UNCHANGED cvars

\* SQLite3Pouch(opts, callback) when no statement of setup fails.
Open(h) == SqlPouch(h, 0)

\* The file after the first SqlPouch(opts) call created the schema.
DInit ==
    /\ db = EmptyDb
    /\ uuidCount = 0
    /\ isOpen = [h \in Handles |-> h = 1]
    /\ instanceId = [h \in Handles |-> IF h = 1 THEN FirstDbid ELSE NoDbid]
    /\ last = [op |-> "open", handle |-> 1, docs |-> <<>>, results |-> <<>>,
               failed |-> FALSE, preOk |-> [id \in Ids |-> NoRow],
               pre |-> EmptyDb, events |-> <<>>, docId |-> NULL, revs |-> {},
               error |-> FALSE, runs |-> FALSE, again |-> FALSE]
    /\ lastOk = [id \in Ids |-> NoRow]
    /\ seqLog = <<>>
    /\ reopened = FALSE
    /\ compacted = FALSE
    /\ sub = NoSub
    /\ delivered = <<>>

Init == QInit /\ DInit /\ CInit

\* Two instances constructed on the same file: the first created the
\* schema, the second found it.
InitBoth ==
    /\ QInit
    /\ CInit
    /\ db = EmptyDb
    /\ uuidCount = 0
    /\ isOpen = [h \in Handles |-> TRUE]
    /\ instanceId = [h \in Handles |-> FirstDbid]
    /\ last = [op |-> "open", handle |-> 2, docs |-> <<>>, results |-> <<>>,
               failed |-> FALSE, preOk |-> [id \in Ids |-> NoRow],
               pre |-> EmptyDb, events |-> <<>>, docId |-> NULL, revs |-> {},
               error |-> FALSE, runs |-> FALSE, again |-> FALSE]
    /\ lastOk = [id \in Ids |-> NoRow]
    /\ seqLog = <<>>
    /\ reopened = TRUE
    /\ compacted = FALSE
    /\ sub = NoSub
    /\ delivered = <<>>

Write(h) == \E docs \in Batches(db, Ids, Contents) : BulkDocs(h, docs)

\* One document id and one local id.
FewIds == {"a"} \cup LocalIds

WritePlain(h) ==
    \E docs \in Batches(db, FewIds, PlainContents) : BulkDocs(h, docs)

Compact(h) ==
    \E docId \in FewIds \cap DocIds, runs \in BOOLEAN :
        \E revs \in CompactableRevs(db, docId) :
            DoCompaction(h, docId, revs, runs)

\* Every operation of one instance, on documents without attachments under
\* one document id and one local id.
Next ==
    \/ WritePlain(1)
    \/ Compact(1)
    \/ Close(1)
    \/ Open(1)

Spec == Init /\ [][Next]_vars

\* The revisions a caller of _putLocal may supply: none, the stored one,
\* or one that is not stored.
PutLocalAny(h) ==
    \E id \in LocalIds, v \in Values :
        \E rev \in SuppliedRevs(db, id) :
            PutLocal(h, Doc(id, rev, FALSE, v, <<>>))

\* Bulk writes and _putLocal of one instance, on one document id and one
\* local id.
LocalNext ==
    \/ WritePlain(1)
    \/ PutLocalAny(1)

LocalSpec == Init /\ [][LocalNext]_vars

\* The files an instance may be constructed on: a new one, and stores
\* created earlier, by a build of the adapter that wrote no db_version
\* column, an older, the same or a newer schema version.
SetupStores ==
    {BlankDb}
    \cup {[EmptyDb EXCEPT !.schema = @ \ {VersionColumn},
                          !.meta = <<MetaRow(FirstDbid, 0)>>]}
    \cup {[EmptyDb EXCEPT !.meta = <<MetaRow(FirstDbid, v)>>] :
             v \in 1..(ADAPTER_VERSION + 1)}

\* No instance has been constructed yet.
SetupInit ==
    /\ QInit
    /\ CInit
    /\ db \in SetupStores
    /\ uuidCount = 0
    /\ isOpen = [h \in Handles |-> FALSE]
    /\ instanceId = [h \in Handles |-> NoDbid]
    /\ last = [op |-> "none", handle |-> 1, docs |-> <<>>, results |-> <<>>,
               failed |-> FALSE, preOk |-> [id \in Ids |-> NoRow],
               pre |-> BlankDb, events |-> <<>>, docId |-> NULL, revs |-> {},
               error |-> FALSE, runs |-> FALSE, again |-> FALSE]
    /\ lastOk = [id \in Ids |-> NoRow]
    /\ seqLog = <<>>
    /\ reopened = FALSE
    /\ compacted = FALSE
    /\ sub = NoSub
    /\ delivered = <<>>

\* SQLite3Pouch(opts, callback) where any one statement of the schema
\* creation may fail, or none.
Construct(h) ==
    /\ uuidCount < MaxSeq
    /\ \E failAt \in 0..(Len(SchemaObjects) + 1) : SqlPouch(h, failAt)

\* Construction, _putLocal and close of two instances on one file.
SetupNext ==
    \E h \in Handles :
        \/ Construct(h)
        \/ PutLocalAny(h)
        \/ Close(h)

SetupSpec == SetupInit /\ [][SetupNext]_vars

\* Bulk writes alone, from two open instances.
WriteNext == \E h \in Handles : Write(h)

WriteSpec == InitBoth /\ [][WriteNext]_vars

\* The revision sets the caller hands to _doCompaction: revisions of the
\* document other than its winning one, stored or already removed.
ObsoleteRevs(t, docId) ==
    {S \in CompactableRevs(t, docId) :
        t.docStore[docId] # NoRow => t.docStore[docId].rev \notin S}

CompactObsolete(h) ==
    \E docId \in FewIds \cap DocIds, runs \in BOOLEAN :
        \E revs \in ObsoleteRevs(db, docId) :
            DoCompaction(h, docId, revs, runs)

CompactWrite(h) ==
    \E docs \in Batches(db, FewIds \cap DocIds, Contents) : BulkDocs(h, docs)

\* The caller repeats its last _doCompaction call.
CompactAgain(h) ==
    /\ last.op = "doCompaction"
    /\ DoCompaction(h, last.docId, last.revs, last.runs)

\* Bulk writes to one document and compaction of its obsolete revisions.
CompactNext ==
    \/ CompactWrite(1)
    \/ CompactObsolete(1)
    \/ CompactAgain(1)

CompactSpec == Init /\ [][CompactNext]_vars

\* --------------------------------------------------------------- _changes

\* fetchChanges: the criterion `maxSeq > ?` bound to opts.since.
AfterSinceInclusive(maxSeq, since) == maxSeq >= since
AfterSince(maxSeq, since) == maxSeq > since

\* fetchChanges: ORDER BY maxSeq ASC.
OrderDescending(x, y) == x.maxSeq >= y.maxSeq
OrderAscending(x, y) == x.maxSeq <= y.maxSeq

\* fetchChanges: the rows of the document table joined with the by-sequence
\* rows ON doc_id = id AND winningseq = seq, WHERE maxSeq > since.
ChangeRows(t, since) ==
    {[metadata |-> t.docStore[id].json,
      maxSeq |-> t.docStore[id].max_seq,
      winningDoc |-> r.json,
      winningRev |-> r.rev,
      deleted |-> r.deleted] :
        <<id, r>> \in {p \in Ids \X t.bySeq :
                          /\ t.docStore[p[1]] # NoRow
                          /\ p[2].doc_id = p[1]
                          /\ p[2].seq = t.docStore[p[1]].winningseq
                          /\ AfterSince(t.docStore[p[1]].max_seq, since)}}

\* The rows in the order of the ORDER BY clause.
RECURSIVE Ordered(_)
Ordered(rows) ==
    IF rows = {} THEN <<>>
    ELSE LET first == CHOOSE x \in rows : \A y \in rows : OrderAscending(x, y)
         IN <<first>> \o Ordered(rows \ {first})

\* api._getAttachment: the body stored under the digest, if any.
GetAttachment(t, digest) ==
    IF digest \in t.attachStore THEN [data |-> digest] ELSE [data |-> NULL]

\* fetchAttachmentsIfNecessary(doc, opts, api, cb) with opts.attachments and
\* opts.include_docs: every attachment of the document is replaced by its
\* digest and data; _getAttachment calls back before it returns, so cb runs
\* before fetchAttachmentsIfNecessary returns.
fetchAttachmentsIfNecessary(t, json) ==
    [k \in 1..Len(json.attachments) |->
        [digest |-> json.attachments[k],
         data |-> GetAttachment(t, json.attachments[k]).data]]

\* fetchChanges, the loop body: the change built from one row, as handed to
\* opts.onChange.
Change(t, row, inline) ==
    [id |-> row.metadata.id,
     seq |-> row.maxSeq,
     rev |-> row.winningRev,
     deleted |-> row.deleted,
     atts |-> IF inline THEN fetchAttachmentsIfNecessary(t, row.winningDoc)
              ELSE <<>>]

\* api._changes(opts), one-shot, ascending, no filter and no limit: the
\* changes in the order onChange is called with them, and the last_seq
\* handed to opts.complete.
Changes(t, since, inline) ==
    LET rows == Ordered(ChangeRows(t, since))
    IN [results |-> [k \in 1..Len(rows) |-> Change(t, rows[k], inline)],
        last_seq |-> IF rows = <<>> THEN since ELSE rows[Len(rows)].maxSeq]

\* api._changes(opts) with opts.continuous on handle h: addListener, then
\* notify.
Subscribe(h, since, inline) ==
    /\ isOpen[h]
    /\ sub = NoSub
    /\ sub' = Notify([active |-> TRUE, from |-> since, since |-> since,
                      pending |-> FALSE, inline |-> inline])
    /\ UNCHANGED <<db, uuidCount, isOpen, instanceId, last, lastOk, seqLog, reopened,
                   compacted, delivered>>
    /\ UNCHANGED qvars
    /\ UNCHANGED cvars

\* The cancel function api._changes returned: removeListener.
Cancel ==
    /\ sub.active
    /\ sub' = [sub EXCEPT !.active = FALSE, !.pending = FALSE]
    /\ UNCHANGED <<db, uuidCount, isOpen, instanceId, last, lastOk, seqLog, reopened,
                   compacted, delivered>>
    /\ UNCHANGED qvars
    /\ UNCHANGED cvars

\* The listener registered by addListener, on a notification: it runs the
\* one-shot query from the last sequence it delivered and hands every match
\* to the subscriber's onChange.
ListenerRun ==
    /\ sub.active
    /\ sub.pending
    /\ \E r \in {Changes(db, sub.since, sub.inline)} :
          /\ delivered' = delivered \o r.results
          /\ sub' = [sub EXCEPT !.pending = FALSE, !.since = r.last_seq]
    /\ UNCHANGED <<db, uuidCount, isOpen, instanceId, last, lastOk, seqLog, reopened,
                   compacted>>
    /\ UNCHANGED qvars
    /\ UNCHANGED cvars

\* api._bulkDocs(req) on handle h when the engine fails the COMMIT that
\* db.transaction issues after the transaction function returned: the
\* transaction is rolled back and the exception leaves api._bulkDocs, after
\* complete() has notified and called back. The engine fails one COMMIT in
\* a run.
BulkDocsCommitFails(h, docs) ==
    /\ isOpen[h]
    /\ docs # <<>>
    /\ uuidCount = db.seq
    /\ db.seq + Len(docs) <= MaxSeq
    /\ \E prefetched \in {[i \in 1..Len(docs) |-> Prefetch(db, docs[i])]} :
       \E out \in {ProcessDocs(db, prefetched, 1, uuidCount, FALSE, <<>>)} :
       \E results \in {Results(prefetched, out.infos)} :
          /\ last' = [op |-> "bulkDocs", handle |-> h, docs |-> docs,
                      results |-> results, failed |-> out.failed,
                      preOk |-> lastOk, pre |-> db,
                      events |-> <<"notify", "callback", "ROLLBACK">>,
                      docId |-> NULL, revs |-> {},
                      error |-> FALSE, runs |-> FALSE, again |-> FALSE]
          /\ uuidCount' = uuidCount + Len(docs)
          /\ sub' = Notify(sub)
    /\ UNCHANGED <<db, isOpen, instanceId, lastOk, seqLog, reopened, compacted,
                   delivered>>
    /\ UNCHANGED qvars
    /\ UNCHANGED cvars

\* What the documents of the change feed runs carry: a deletion, or a value
\* with one inline attachment.
FeedContents == {c \in Contents : c.deleted \/ c.atts # <<>>}

\* Requests whose documents carry the revision stored for their id.
FeedBatches(t) ==
    UNION {[1..n -> {Doc(id, StoredRev(t, id), c.deleted, c.value, c.atts) :
                        id \in Ids, c \in FeedContents}] : n \in 0..MaxBatch}

FeedWrite(h) == \E docs \in FeedBatches(db) : BulkDocs(h, docs)

FeedWriteFails(h) == \E docs \in FeedBatches(db) : BulkDocsCommitFails(h, docs)

\* Bulk writes of one instance and one continuous subscriber.
FeedNext ==
    \/ FeedWrite(1)
    \/ FeedWriteFails(1)
    \/ \E since \in {0, db.seq}, inline \in BOOLEAN : Subscribe(1, since, inline)
    \/ Cancel
    \/ ListenerRun

FeedSpec == Init /\ [][FeedNext]_vars

\* Requests that update or create documents, each with an attachment.
LiveBatches(t) ==
    UNION {[1..n -> {Doc(id, StoredRev(t, id), c.deleted, c.value, c.atts) :
                        id \in DocIds, c \in FeedContents \ PlainContents}] :
              n \in 0..MaxBatch}

LiveWrite(h) == \E docs \in LiveBatches(db) : BulkDocs(h, docs)

LiveWriteFails(h) == \E docs \in LiveBatches(db) : BulkDocsCommitFails(h, docs)

FeedLiveNext ==
    \/ LiveWrite(1)
    \/ LiveWriteFails(1)
    \/ \E since \in {0, db.seq}, inline \in BOOLEAN : Subscribe(1, since, inline)
    \/ Cancel
    \/ ListenerRun

\* A notified listener is run.
FeedLiveSpec == Init /\ [][FeedLiveNext]_vars /\ WF_vars(ListenerRun)

QueueSpec == Init /\ [][QNext]_vars

\* The scheduling the queue relies on: a callback handed to setImmediate is
\* run, a dispatched fn terminates, and the continuation of an await whose
\* promise settled is run.
Dispatched == \E id \in OpIds, throws \in BOOLEAN, busy \in BOOLEAN :
                  StartRead(id, throws) \/ StartWrite(id, throws, busy)

FnTerminates == \E id \in OpIds : FnReturn(id) \/ FnReject(id)

Finished == \E id \in OpIds, commitFails \in BOOLEAN : Finish(id, commitFails)

QueueLiveSpec ==
    /\ Init /\ [][QNext]_vars
    /\ WF_vars(Dispatched) /\ WF_vars(FnTerminates) /\ WF_vars(Finished)

\* ------------------------------------------------ TransactionQueue claims

Terminals(s) == {k \in 1..Len(s) : s[k] \in {"COMMIT", "ROLLBACK"}}

\* Operations handed to setImmediate whose finally block has not run yet.
InFlight == {i \in OpIds : pc[i] \in {"scheduled", "fn", "returned"}}

\* Write transactions begun and not yet committed or rolled back.
OpenWriteTx == {i \in OpIds : stmts[i] # <<>> /\ Terminals(stmts[i]) = {}}

Started(i) == pc[i] \in {"fn", "returned", "done"}

\* C2: under every interleaving of push and pushReadOnly calls at most one
\* queued operation is in flight, and at most one write transaction is open
\* (begun, neither committed nor rolled back).
C2_SingleInFlight ==
    /\ Cardinality(InFlight) <= 1
    /\ Cardinality(OpenWriteTx) <= 1
    /\ OpenWriteTx \subseteq InFlight
    /\ InFlight # {} => inProgress

\* A write transaction is open while another write waits in the queue.
C2_Witness ==
    \E i, j \in OpIds :
        /\ i \in OpenWriteTx /\ pc[i] = "fn"
        /\ pc[j] = "queued" /\ ~readonly[j]

\* C3: a write whose fn rejects before it called commit or rollback is
\* rolled back: ROLLBACK is executed, COMMIT never is, and nothing fn
\* executed persists.
C3_RejectRollsBack ==
    \A i \in OpIds :
        (~readonly[i] /\ pc[i] = "done" /\ outcome[i] = "rejected" /\ ~explicit[i])
            => /\ stmts[i] = <<"BEGIN", "ROLLBACK">>
               /\ i \notin dbPersisted

\* A write executed a statement and then rejected, without a terminal call.
C3_Witness ==
    \E i \in OpIds :
        /\ ~readonly[i] /\ pc[i] = "done" /\ outcome[i] = "rejected"
        /\ ~explicit[i] /\ calls[i] > 0

\* C9: operations are dispatched in the order of the push/pushReadOnly
\* calls, reads and writes in one FIFO: an operation is dispatched only when
\* every operation submitted before it has run to its end.
C9_Fifo ==
    \A a, b \in OpIds :
        (a < b /\ pc[b] \notin {"none", "queued"}) => pc[a] = "done"

\* A read and a write have run in submission order while a third waits.
C9_Witness ==
    \E a, b, c \in OpIds :
        /\ a < b /\ b < c
        /\ pc[a] = "done" /\ Started(b) /\ pc[c] = "queued"
        /\ readonly[a] # readonly[b]

RowsOf(t, id) == {r \in t.bySeq : r.doc_id = id}

\* The request document supplies a revision other than the one stored for
\* its id.
Mismatched(t, d) ==
    /\ ~isLocalId(d.id)
    /\ d.rev # NoRev
    /\ t.docStore[d.id] # NoRow
    /\ d.rev # t.docStore[d.id].rev

\* The request document supplies no revision for an id whose stored winning
\* revision is not deleted.
Recreates(t, d) ==
    /\ ~isLocalId(d.id)
    /\ d.rev = NoRev
    /\ t.docStore[d.id] # NoRow
    /\ ~t.docStore[d.id].json.deleted

StorageUnchangedFor(id) ==
    /\ db.docStore[id] = last.pre.docStore[id]
    /\ RowsOf(db, id) = RowsOf(last.pre, id)

LastDocs == IF last.op = "bulkDocs" THEN 1..Len(last.docs) ELSE {}

\* C1: a non-local document whose supplied _rev differs from the stored
\* revision of its id gets a Conflict result, and storage is unchanged for
\* that id: no by-sequence row is inserted and the document row is as it was.
C1_MismatchRejected ==
    \A i \in LastDocs :
        Mismatched(last.pre, last.docs[i]) =>
            /\ ~last.results[i].ok
            /\ (\A j \in LastDocs :
                    last.docs[j].id = last.docs[i].id
                        => Mismatched(last.pre, last.docs[j]))
                   => StorageUnchangedFor(last.docs[i].id)

\* A request held a document with a revision other than the stored one.
C1_Witness ==
    \E i \in LastDocs :
        Mismatched(last.pre, last.docs[i]) /\ ~last.results[i].ok

\* C4: when a statement fails while a batch is written, the transaction is
\* rolled back, so that no row the batch wrote persists, and the caller gets
\* an error instead of ok results.
C4_FailureRollsBack ==
    (last.op = "bulkDocs" /\ last.failed) =>
        /\ db = last.pre
        /\ \A i \in LastDocs : ~last.results[i].ok

\* A statement of the last batch violated a constraint.
C4_Witness == last.op = "bulkDocs" /\ last.failed

\* C5: the sequence numbers given to by-sequence rows strictly increase in
\* write order and are never reused, also after compaction removed the
\* highest rows and after a close and reopen.
C5_SeqIncreasing ==
    /\ \A i, j \in 1..Len(seqLog) : i < j => seqLog[i].seq < seqLog[j].seq
    /\ \A r \in db.bySeq : \E k \in 1..Len(seqLog) : seqLog[k].seq = r.seq
    /\ \A r1, r2 \in db.bySeq : r1.seq = r2.seq => r1 = r2

\* A write followed the removal of the highest row and a reopen.
C5_Witness ==
    \E k \in 2..Len(seqLog) :
        /\ seqLog[k].maxBefore < seqLog[k - 1].seq
        /\ seqLog[k].reopened /\ ~seqLog[k - 1].reopened
        /\ compacted

\* C6: a document without _rev for an id whose stored winning revision is
\* not deleted gets Conflict and nothing is written; so when two instances
\* each create the same new id, the second one gets Conflict.
C6_RecreateRejected ==
    \A i \in LastDocs :
        Recreates(last.pre, last.docs[i]) =>
            /\ ~last.results[i].ok
            /\ (\A j \in LastDocs :
                    last.docs[j].id = last.docs[i].id
                        => Recreates(last.pre, last.docs[j]))
                   => StorageUnchangedFor(last.docs[i].id)

\* An instance creates, without _rev, an id that the other instance created.
C6_Witness ==
    \E i \in LastDocs :
        /\ Recreates(last.pre, last.docs[i])
        /\ last.preOk[last.docs[i].id] # NoRow
        /\ last.preOk[last.docs[i].id].handle # last.handle
        /\ last.pre.docStore[last.docs[i].id].json.rev[1] = 1

\* C7: duplicate ids in one batch are processed in input order, a later
\* duplicate being checked against what the earlier one wrote: of two
\* documents without _rev for the same new id the first is ok, the second
\* gets Conflict, and one by-sequence row is stored for the id.
C7_DuplicateIds ==
    \A i, j \in LastDocs :
        (/\ i < j
         /\ last.docs[i].id = last.docs[j].id
         /\ ~isLocalId(last.docs[i].id)
         /\ last.pre.docStore[last.docs[i].id] = NoRow
         /\ last.docs[i].rev = NoRev /\ last.docs[j].rev = NoRev
         /\ ~last.docs[i].deleted)
            => /\ last.results[i].ok
               /\ ~last.results[j].ok
               /\ Cardinality(RowsOf(db, last.docs[i].id)) = 1

\* A batch held the same new id twice, both times without _rev.
C7_Witness ==
    \E i, j \in LastDocs :
        /\ i < j
        /\ last.docs[i].id = last.docs[j].id
        /\ ~isLocalId(last.docs[i].id)
        /\ last.pre.docStore[last.docs[i].id] = NoRow
        /\ last.docs[i].rev = NoRev /\ last.docs[j].rev = NoRev
        /\ ~last.docs[i].deleted

\* What _get(id) is to return after the writes recorded in ok.
Expected(ok, id) ==
    IF ok[id] = NoRow THEN NotFound
    ELSE IF ok[id].deleted THEN NotFound
    ELSE [rev |-> ok[id].rev, json |-> ok[id].json]

\* C8: after any sequence of bulk writes _get(id) returns the revision and
\* body of the most recent write to id that was reported ok, NotFound when
\* there is none or it was a deletion; a write reported as Conflict leaves
\* what _get(id) returns unchanged.
C8_GetReturnsLastOk ==
    /\ \A id \in DocIds : Get(db, id) = Expected(lastOk, id)
    /\ \A i \in LastDocs :
           (/\ ~isLocalId(last.docs[i].id)
            /\ \A j \in LastDocs :
                   last.docs[j].id = last.docs[i].id => ~last.results[j].ok)
               => Get(db, last.docs[i].id) = Get(last.pre, last.docs[i].id)

\* A stored document was updated by a write reported ok.
C8_Witness ==
    \E id \in DocIds :
        /\ lastOk[id] # NoRow
        /\ last.preOk[id] # NoRow
        /\ lastOk[id] # last.preOk[id]
        /\ ~lastOk[id].deleted

\* ------------------------------------------------------- queue liveness

Idle == queue = <<>> /\ ~inProgress

EventAt(e) == {k \in 1..Len(last.events) : last.events[k] = e}

\* C12: a bulk write signals the change feed (Changes.notify) and reports
\* its results to the caller only once its transaction has committed; a
\* batch whose transaction is rolled back produces neither a signal nor ok
\* results.
C12_NotifyAfterCommit ==
    last.op = "bulkDocs" =>
        /\ \A k \in EventAt("notify") \cup EventAt("callback") :
               \E j \in EventAt("COMMIT") : j < k
        /\ EventAt("ROLLBACK") # {} =>
               /\ EventAt("notify") = {}
               /\ \A i \in LastDocs : ~last.results[i].ok

\* A batch was reported ok and signalled, and its transaction rolled back.
C12_Witness ==
    /\ last.op = "bulkDocs"
    /\ EventAt("ROLLBACK") # {}
    /\ EventAt("notify") # {}
    /\ \E i \in LastDocs : last.results[i].ok
    /\ db = last.pre

\* The documents whose max sequence is greater than since.
ChangedSince(t, since) ==
    {id \in DocIds : t.docStore[id] # NoRow /\ t.docStore[id].max_seq > since}

\* C13: one-shot _changes (ascending, no filter, no limit) from sequence S
\* reports exactly the non-local documents whose max sequence is greater
\* than S, each once, in increasing sequence order, and a last_seq equal to
\* the largest sequence reported, or S when nothing is reported.
C13_OneShotChanges ==
    \A S \in 0..MaxSeq :
        LET r == Changes(db, S, FALSE)
            n == Len(r.results)
        IN /\ {r.results[k].id : k \in 1..n} = ChangedSince(db, S)
           /\ n = Cardinality(ChangedSince(db, S))
           /\ \A k \in 1..n :
                  r.results[k].seq = db.docStore[r.results[k].id].max_seq
           /\ \A j, k \in 1..n : j < k => r.results[j].seq < r.results[k].seq
           /\ r.last_seq = IF n = 0 THEN S ELSE r.results[n].seq

\* Two documents changed after some sequence, a third document change lies
\* before it, and a local document was written.
C13_Witness ==
    /\ \E S \in 1..MaxSeq :
          /\ Len(Changes(db, S, FALSE).results) = 1
          /\ Len(Changes(db, 0, FALSE).results) = 2
    /\ \E r \in db.bySeq : r.doc_id = NULL

Delivered(id, s) ==
    \E k \in 1..Len(delivered) : delivered[k].id = id /\ delivered[k].seq >= s

\* The documents written after the subscriber registered.
WrittenSince(from) ==
    {id \in DocIds : db.docStore[id] # NoRow /\ db.docStore[id].max_seq > from}

\* The subscriber has yet to be told of a committed write.
Lagging == sub.active /\ WrittenSince(sub.since) # {}

\* C14: a continuous subscriber registered before a bulk write is eventually
\* delivered a change for every document that write accepted, without
\* querying again, as long as it has not been cancelled: a subscriber that
\* lags behind a committed write catches up or is cancelled, and one that
\* has caught up has been delivered every document written since it
\* registered.
C14_SubscriberDelivered ==
    /\ Lagging ~> ~Lagging
    /\ [](sub.active /\ ~Lagging =>
            \A id \in WrittenSince(sub.from) :
                Delivered(id, db.docStore[id].max_seq))

\* A subscriber registered on an empty store has been delivered the
\* documents of two writes made afterwards.
C14_Witness ==
    /\ sub.active /\ ~Lagging
    /\ sub.from = 0
    /\ Len(delivered) >= 2
    /\ \E k \in 1..Len(delivered) : delivered[k].seq = MaxSeq
    /\ last.op = "bulkDocs" /\ EventAt("COMMIT") # {}

\* C15: changes reach a subscriber in strictly increasing sequence order,
\* within one query run and across the runs that successive commits
\* trigger, also when attachments are inlined before a change is delivered.
C15_DeliveredIncreasing ==
    \A j, k \in 1..Len(delivered) :
        j < k => delivered[j].seq < delivered[k].seq

\* One run delivered two changes and a later run delivered one of the two
\* documents again, with its attachment inlined.
C15_Witness ==
    /\ Len(delivered) = 3
    /\ delivered[1].id # delivered[2].id
    /\ delivered[3].id \in {delivered[1].id, delivered[2].id}
    /\ delivered[3].atts # <<>>
    /\ delivered[3].atts[1].data # NULL

\* -------------------------------------------------------- compaction claims

\* The by-sequence row is one the last _doCompaction call was to remove.
Targeted(r) == r.doc_id = last.docId /\ r.rev \in last.revs

\* C16: _doCompaction(docId, revs) with a non-empty revs removes the
\* by-sequence row of every revision in revs for that document, for one
\* revision and for several alike, and removes no other by-sequence row.
C16_RemovesRows ==
    [][last'.op = "doCompaction" =>
          db'.bySeq = {r \in db.bySeq :
                          ~(r.doc_id = last'.docId /\ r.rev \in last'.revs)}]_vars

\* _doCompaction was called with two stored revisions of a document.
C16_Witness ==
    /\ last.op = "doCompaction"
    /\ Cardinality(last.revs) = 2
    /\ FakeRev \notin last.revs
    /\ \A rev \in last.revs : \E r \in db.bySeq : r.rev = rev /\ Targeted(r)

\* The sequences of the by-sequence rows that were not compacted.
KeptSeqs == {r.seq : r \in {x \in db.bySeq : ~Targeted(x)}}

\* C17: _doCompaction deletes the attachment-link rows of the compacted
\* sequences and then the orphaned attachments: after it an attachment row
\* exists if and only if a link row of a sequence that was not compacted
\* references its digest.
C17_OrphansSwept ==
    last.op = "doCompaction" =>
        /\ \A l \in db.attachSeq : l[2] \in KeptSeqs
        /\ \A d \in Digests :
               d \in db.attachStore <=>
                   \E l \in db.attachSeq : l[1] = d /\ l[2] \in KeptSeqs

\* The by-sequence row of a revision with an attachment was removed.
C17_Witness ==
    /\ last.op = "doCompaction"
    /\ \E l \in db.attachSeq : \A r \in db.bySeq : r.seq # l[2]

\* C18: a by-sequence row is never updated or removed by later writes:
\* _get(id, rev) for a revision once accepted keeps returning that
\* revision's body across later updates and deletions, until _doCompaction
\* is run against that revision.
C18_OldRevisionKept ==
    /\ [](\A i \in LastDocs :
              (last.results[i].ok /\ ~isLocalId(last.docs[i].id)) =>
                  GetRev(db, last.docs[i].id, last.results[i].rev)
                      = [rev |-> last.results[i].rev,
                         json |-> StoredJson(last.docs[i])])
    /\ [][\A r \in db.bySeq :
              r.doc_id # NULL =>
                  \/ GetRev(db', r.doc_id, r.rev)
                         = [rev |-> r.rev, json |-> r.json]
                  \/ /\ last'.op = "doCompaction"
                     /\ r.doc_id = last'.docId
                     /\ r.rev \in last'.revs]_vars

\* An earlier revision of a document that was later deleted is returned
\* after a compaction of another revision.
C18_Witness ==
    \E r \in db.bySeq :
        /\ r.doc_id = "a"
        /\ r.seq < db.docStore["a"].winningseq
        /\ ~r.deleted
        /\ Get(db, "a") = NotFound
        /\ GetRev(db, "a", r.rev) = [rev |-> r.rev, json |-> r.json]
        /\ last.op = "doCompaction"

PriorGeneration(i) ==
    LET id == last.docs[i].id
        earlier == {j \in LastDocs :
                       j < i /\ last.docs[j].id = id /\ last.results[j].ok}
    IN IF earlier # {} THEN last.results[SetMax(earlier)].rev[1]
       ELSE IF last.pre.docStore[id] = NoRow THEN 0
       ELSE last.pre.docStore[id].rev[1]

\* C20: every accepted write of a non-local document gets a revision
\* '<g>-<token>' with g = 1 when the id had no stored revision and the
\* stored generation plus 1 otherwise, so that the generations of the
\* accepted writes to one id are 1, 2, 3, ... without gaps or repeats.
C20_GenerationPlusOne ==
    \A i \in LastDocs :
        (last.results[i].ok /\ ~isLocalId(last.docs[i].id)) =>
            last.results[i].rev[1] = PriorGeneration(i) + 1

\* One request held two accepted writes to the same document.
C20_Witness ==
    \E i, j \in LastDocs :
        /\ i < j
        /\ last.docs[i].id = last.docs[j].id
        /\ ~isLocalId(last.docs[i].id)
        /\ last.results[i].ok /\ last.results[j].ok
        /\ last.pre.docStore[last.docs[i].id] # NoRow

\* ------------------------------------------- claims about batch results

PassesCheck(j) ==
    /\ ~Mismatched(last.pre, last.docs[j])
    /\ ~Recreates(last.pre, last.docs[j])

\* Input document j of the last request is stored under the revision its
\* result reports: as a by-sequence row of its id with its body, or, for a
\* local id, in the local table (the last document of the id in the request
\* being the one whose body the row holds).
StoredFrom(j) ==
    LET d == last.docs[j]
    IN IF d.id \in LocalIds
       THEN /\ db.localStore[d.id] # NoRow
            /\ (\A k \in LastDocs : k > j => last.docs[k].id # d.id)
                   => db.localStore[d.id].json = StoredJson(d)
       ELSE \E r \in db.bySeq :
               /\ r.doc_id = d.id
               /\ r.rev = last.results[j].rev
               /\ r.json = StoredJson(d)
               /\ r.deleted = d.deleted

RevForNewId(t, d) ==
    /\ d.id \in DocIds
    /\ d.rev # NoRev
    /\ t.docStore[d.id] = NoRow

\* C23: a document that supplies a _rev for an id that has no stored
\* document is rejected with Conflict, and no document row and no
\* by-sequence row is created for that id.
C23_RevForNewIdRejected ==
    \A i \in LastDocs :
        RevForNewId(last.pre, last.docs[i]) =>
            /\ ~last.results[i].ok
            /\ (\A j \in LastDocs :
                    last.docs[j].id = last.docs[i].id
                        => RevForNewId(last.pre, last.docs[j]))
                   => StorageUnchangedFor(last.docs[i].id)

\* A request held a document with a revision for an id never stored.
C23_Witness ==
    \E i \in LastDocs : RevForNewId(last.pre, last.docs[i])

\* ------------------------------------------- claims about local documents

LocalBatch ==
    /\ last.op = "bulkDocs"
    /\ last.docs # <<>>
    /\ \A i \in LastDocs : last.docs[i].id \in LocalIds

\* C25: writing a local document through _bulkDocs does no sequence
\* bookkeeping: it inserts no by-sequence row, consumes no sequence number
\* and leaves the update_seq reported by _info unchanged.
C25_NoSequenceBookkeeping ==
    LocalBatch =>
        /\ db.bySeq = last.pre.bySeq
        /\ db.seq = last.pre.seq
        /\ getMaxSeq(db) = getMaxSeq(last.pre)

\* A _bulkDocs request of local documents has run.
C25_Witness == LocalBatch /\ \A i \in LastDocs : last.results[i].ok

\* The write of the last request to the local id was accepted, and was the
\* only document of the request.
AcceptedLocalWrite(id) ==
    /\ last.op \in {"bulkDocs", "putLocal"}
    /\ Len(last.docs) = 1
    /\ last.docs[1].id = id
    /\ last.results[1].ok

\* C26: every revision stored for a local document has the form 0-N: 0-1
\* on creation and N incremented by exactly 1 on each accepted update,
\* through _putLocal and through _bulkDocs alike.
C26_LocalRevCounter ==
    \A id \in LocalIds :
        /\ db.localStore[id] # NoRow => db.localStore[id].rev[1] = 0
        /\ AcceptedLocalWrite(id) =>
              db.localStore[id].rev =
                  IF last.pre.localStore[id] = NoRow THEN LocalFirstRev
                  ELSE <<0, last.pre.localStore[id].rev[2] + 1>>

\* A local document was created through _bulkDocs.
C26_Witness ==
    \E id \in LocalIds :
        /\ AcceptedLocalWrite(id)
        /\ last.op = "bulkDocs"
        /\ last.pre.localStore[id] = NoRow

\* Local document i of the last _bulkDocs request supplies a revision other
\* than the one stored for its id, or a revision for an id not stored.
LocalMismatched(i) ==
    /\ last.op = "bulkDocs"
    /\ last.docs[i].id \in LocalIds
    /\ last.docs[i].rev # NoRev
    /\ \/ last.pre.localStore[last.docs[i].id] = NoRow
       \/ last.docs[i].rev # last.pre.localStore[last.docs[i].id].rev

\* C27: a local document written through _bulkDocs whose supplied _rev does
\* not match the stored local revision, or whose id has no stored local
\* document, gets an error result, and the local table is left unchanged.
C27_LocalMismatchRejected ==
    \A i \in LastDocs :
        LocalMismatched(i) =>
            /\ ~last.results[i].ok
            /\ (\A j \in LastDocs :
                    last.docs[j].id = last.docs[i].id => LocalMismatched(j))
                   => db.localStore = last.pre.localStore

\* A request held a local document with a revision that is not the stored
\* one.
C27_Witness ==
    \E i \in LastDocs :
        /\ LocalMismatched(i)
        /\ last.pre.localStore[last.docs[i].id] # NoRow

\* ------------------------------------------------ claims about re-runs

C29_InstanceIdStable ==
    [][db.meta # <<>> =>
          /\ Len(db'.meta) = Len(db.meta)
          /\ db'.meta[1].dbid = db.meta[1].dbid
          /\ db'.meta[1].db_version >= db.meta[1].db_version
          /\ \A h \in Handles :
                isOpen'[h] => instanceId'[h] = db.meta[1].dbid]_vars

\* An instance was constructed on a store that an earlier instance of the
\* run had created, and returns the id generated then.
C29_Witness ==
    /\ last.op = "open"
    /\ ~last.error
    /\ last.pre.meta # <<>>
    /\ db.meta[1].dbid # FirstDbid
    /\ isOpen[last.handle]
    /\ instanceId[last.handle] = db.meta[1].dbid

\* C30: when a statement fails during the initial schema creation, the
\* construction is aborted: no table, no index and no metadata row persists,
\* the constructor callback receives the error, and the instance offers no
\* store operation.
C30_CreationFailureAborts ==
    (last.op = "open" /\ last.pre.meta = <<>> /\ last.error) =>
        /\ db = last.pre
        /\ db.schema = {}
        /\ db.meta = <<>>
        /\ ~isOpen[last.handle]

\* The creation of the schema failed after its first statements had run.
C30_Witness ==
    /\ last.op = "open"
    /\ last.error
    /\ last.pre = BlankDb
    /\ uuidCount > 0

\* ------------------------------------- claims about the transaction handle

\* C31: on a write transaction handle, once commit or rollback has
\* succeeded, every further commit, rollback and execute throws, and none
\* of these calls issues SQL to the engine.
C31_FinalizedHandleThrows ==
    (lastCall.call # "none" /\ ~readonly[lastCall.op] /\ lastCall.finalized)
        => /\ lastCall.threw
           /\ ~lastCall.sql
           /\ Cardinality(Terminals(stmts[lastCall.op])) = 1

\* fn called execute on its write handle after its commit had succeeded.
C31_Witness ==
    /\ lastCall.call = "execute"
    /\ ~readonly[lastCall.op]
    /\ lastCall.finalized
    /\ stmts[lastCall.op] = <<"BEGIN", "COMMIT">>
    /\ pc[lastCall.op] = "fn"

\* ------------------------------------------ claims about stored documents

\* Result i of the last _bulkDocs request is ok for a document id, and no
\* later result of the request is ok for the same id.
LastAccepted(i) ==
    /\ last.op = "bulkDocs"
    /\ last.results[i].ok
    /\ \A j \in LastDocs :
          (j > i /\ last.docs[j].id = last.docs[i].id) => ~last.results[j].ok

\* C32: after every accepted write of a non-local document, the document
\* row has winning sequence = max sequence = the sequence of the new
\* by-sequence row and rev = the new revision, and the stored rev-tree is a
\* single branch whose leaf, read as <position>-<hash>, is the new revision.
C32_DocumentRowAfterWrite ==
    \A i \in LastDocs :
        (last.docs[i].id \in DocIds /\ LastAccepted(i)) =>
            LET row == db.docStore[last.docs[i].id]
                rev == last.results[i].rev
            IN /\ row # NoRow
               /\ row.rev = rev
               /\ row.winningseq = row.max_seq
               /\ \E r \in db.bySeq :
                     /\ r.seq = row.winningseq
                     /\ r.doc_id = last.docs[i].id
                     /\ r.rev = rev
               /\ <<row.json.rev_tree.pos, row.json.rev_tree.hash>> = rev

\* The one document of a request updated a stored document.
C32_Witness ==
    /\ last.op = "bulkDocs"
    /\ Len(last.docs) = 1
    /\ last.docs[1].id \in DocIds
    /\ last.results[1].ok
    /\ last.pre.docStore[last.docs[1].id] # NoRow
    /\ last.docs[1].rev = last.pre.docStore[last.docs[1].id].rev

\* The non-stub attachments of input document i of the last request.
SuppliedDigests(i) ==
    {last.docs[i].atts[k].digest :
        k \in {j \in 1..Len(last.docs[i].atts) : ~last.docs[i].atts[j].stub}}

\* C33: attachment bytes are content-addressed: for every non-stub
\* attachment written with a document, the attachment table holds the one
\* row of its digest, however many documents or revisions carry the same
\* content, and a link row (digest, seq) exists for the sequence of each
\* revision that supplied those bytes.
C33_ContentAddressed ==
    \A i \in LastDocs :
        (last.docs[i].id \in DocIds /\ last.results[i].ok) =>
            \A d \in SuppliedDigests(i) :
                /\ d \in db.attachStore
                /\ \E r \in db.bySeq :
                      /\ r.doc_id = last.docs[i].id
                      /\ r.rev = last.results[i].rev
                      /\ <<d, r.seq>> \in db.attachSeq

\* A request supplied bytes whose digest the attachment table already held
\* for another revision.
C33_Witness ==
    \E i \in LastDocs :
        /\ last.docs[i].id \in DocIds
        /\ last.results[i].ok
        /\ SuppliedDigests(i) # {}
        /\ SuppliedDigests(i) \subseteq last.pre.attachStore

\* ------------------------------------------- _changes with limit and filter

\* The largest limit a query is given.
MaxLimit == 2

\* api._changes: `limit = 'limit' in opts ? opts.limit : -1`, and a limit of
\* 0 is taken as 1.
Limit(opts) == IF opts.limit = 0 THEN 1 ELSE opts.limit

\* filterChange(opts): a change passes when no filter is given or when the
\* filter function accepts it; the filter is the set of ids it accepts.
Filter(opts, change) == ~opts.hasFilter \/ change.id \in opts.passing

\* fetchChanges: ` LIMIT <limit>` is added to the statement when neither a
\* view nor a filter is given; a negative LIMIT bounds nothing.
SqlLimit(rows, opts) ==
    IF ~opts.hasFilter /\ Limit(opts) >= 0 /\ Limit(opts) < Len(rows)
    THEN SubSeq(rows, 1, Limit(opts))
    ELSE rows

\* fetchChanges: `if (numResults === limit) break`.
LimitReachedNever(numResults, limit) == FALSE
LimitReached(numResults, limit) == numResults = limit

\* fetchChanges, the loop over the result rows from row i on: lastSeq is the
\* maxSeq of every row looked at, a row that passes the filter is counted
\* and delivered, and the loop ends at the limit.
RECURSIVE FetchLoop(_, _, _, _, _, _)
FetchLoop(t, opts, rows, i, results, lastSeq) ==
    IF i > Len(rows) THEN [results |-> results, last_seq |-> lastSeq]
    ELSE LET change == Change(t, rows[i], FALSE)
             filtered == Filter(opts, change)
             out == IF filtered THEN Append(results, change) ELSE results
         IN IF LimitReached(Len(out), Limit(opts))
            THEN [results |-> out, last_seq |-> rows[i].maxSeq]
            ELSE FetchLoop(t, opts, rows, i + 1, out, rows[i].maxSeq)

\* api._changes(opts), one-shot and ascending, with opts.since, opts.limit
\* and opts.filter: what opts.complete is handed.
fetchChanges(t, opts) ==
    FetchLoop(t, opts, SqlLimit(Ordered(ChangeRows(t, opts.since)), opts),
              1, <<>>, opts.since)

\* Bulk writes of one instance, queried between the requests.
QueryNext == FeedWrite(1)

QuerySpec == Init /\ [][QueryNext]_vars

\* The options of a one-shot query.
QueryOpts ==
    [since : 0..MaxSeq, limit : 1..MaxLimit, hasFilter : BOOLEAN,
     passing : SUBSET DocIds]

\* The sequences of the changes after opts.since that pass the filter,
\* lowest first.
Matches(opts) ==
    LET rows == Ordered(ChangeRows(db, opts.since))
        pass(row) == Filter(opts, [id |-> row.metadata.id])
        kept == SelectSeq(rows, pass)
    IN [k \in 1..Len(kept) |-> kept[k].maxSeq]

SeqsOf(changes) == [k \in 1..Len(changes) |-> changes[k].seq]

\* The query that follows a query through its last_seq, without a limit.
FollowUp(opts) ==
    fetchChanges(db, [opts EXCEPT !.since = fetchChanges(db, opts).last_seq,
                                  !.limit = -1])

\* C34: a one-shot _changes with limit L >= 1 delivers at most L changes,
\* the lowest-sequence matches first, and reports a last_seq such that the
\* query with since = last_seq delivers exactly the remaining matches, with
\* or without a filter.
C34_LimitChains ==
    \A opts \in QueryOpts :
        LET r == fetchChanges(db, opts)
            all == Matches(opts)
            n == IF Len(all) < opts.limit THEN Len(all) ELSE opts.limit
        IN /\ Len(r.results) <= opts.limit
           /\ SeqsOf(r.results) = SubSeq(all, 1, n)
           /\ SeqsOf(FollowUp(opts).results) = SubSeq(all, n + 1, Len(all))

\* A filtered query with limit 1 stopped at its first match and left one
\* match to the follow-up query.
C34_Witness ==
    \E opts \in QueryOpts :
        /\ opts.limit = 1
        /\ opts.hasFilter
        /\ Len(fetchChanges(db, opts).results) = 1
        /\ Len(FollowUp(opts).results) = 1

\* ------------------------------------------- claims about push's promise

\* C35: the promise push(fn) returned resolves only after the transaction's
\* COMMIT has been executed successfully: once run() is through with a write
\* whose fn left the transaction to the queue, a resolved promise means the
\* transaction was committed.
C35_ResolvedMeansCommitted ==
    \A i \in OpIds :
        (~readonly[i] /\ ~explicit[i] /\ pc[i] = "done"
         /\ settled[i] = "resolved")
            => stmts[i] = <<"BEGIN", "COMMIT">>

\* A write's promise was resolved and the engine failed its COMMIT.
C35_Witness ==
    \E i \in OpIds :
        /\ ~readonly[i] /\ ~explicit[i] /\ pc[i] = "done"
        /\ settled[i] = "resolved"
        /\ outcome[i] = "commitfailed"
        /\ i \notin dbPersisted
        /\ calls[i] > 0

\* C36: the promise push or pushReadOnly returned always settles once its
\* operation has been dispatched, also when BEGIN IMMEDIATE fails before fn
\* is invoked or when fn throws synchronously.
C36_PromiseSettles ==
    \A i \in OpIds : Started(i) ~> (settled[i] # "pending")

\* An operation whose BEGIN IMMEDIATE failed or whose fn threw at the call
\* has run to its end.
C36_Witness ==
    \E i \in OpIds :
        /\ pc[i] = "done"
        /\ outcome[i] \in {"nobegin", "threw"}
        /\ settled[i] = "pending"

\* ------------------------------------- claims about _doCompaction's outcome

\* C37: _doCompaction is atomic: when one of its steps fails none of its
\* effects persists, and the stored tree never marks as missing a revision
\* whose by-sequence row was not deleted.
C37_CompactionAtomic ==
    [][(last'.op = "doCompaction" /\ last'.error) => db' = db]_vars

\* A _doCompaction call failed in compactRevs after the tree update: the
\* tree marks the revision as missing and its by-sequence row is stored.
C37_Witness ==
    /\ last.op = "doCompaction"
    /\ last.error
    /\ db.docStore[last.docId] # NoRow
    /\ db.docStore[last.docId].json.rev_tree.status = "missing"
    /\ \E r \in db.bySeq :
          /\ r.doc_id = last.docId
          /\ r.rev \in last.revs
          /\ r.rev = <<db.docStore[last.docId].json.rev_tree.pos,
                       db.docStore[last.docId].json.rev_tree.hash>>

\* A caller's _doCompaction call: any set of up to two revisions, stored or
\* not, the empty set included.
CompactAny(h) ==
    \E docId \in FewIds \cap DocIds, runs \in BOOLEAN :
        \E revs \in CompactableRevs(db, docId) \cup {{}} :
            DoCompaction(h, docId, revs, runs)

\* Bulk writes to one document and _doCompaction calls with any revision set.
CallbackNext ==
    \/ CompactWrite(1)
    \/ CompactAny(1)

CallbackSpec == Init /\ [][CallbackNext]_vars

\* The calls of the callback during the last operation.
CallbackCalls ==
    {k \in 1..Len(last.events) : last.events[k] \in {"callback", "callback(err)"}}

\* C38: _doCompaction invokes its callback exactly once per call: with the
\* error when a step failed and without one otherwise, including the call
\* with an empty revision set, which opens no transaction.
C38_CallbackOnce ==
    last.op = "doCompaction" =>
        /\ Cardinality(CallbackCalls) = 1
        /\ \A k \in CallbackCalls :
              last.events[k] = IF last.error THEN "callback(err)" ELSE "callback"
        /\ last.revs = {} => last.events = <<"callback">>

\* A step of _doCompaction failed and the callback was called with the
\* error and, after the transaction, once more without one.
C38_Witness ==
    /\ last.op = "doCompaction"
    /\ last.error
    /\ last.events = <<"callback(err)", "COMMIT", "callback">>
    /\ db.docStore[last.docId] # NoRow

\* ------------------------------------------ claims about reported revisions

\* The revision stored for id: of the local row for a local id, of the
\* document row otherwise.
HeldRev(id) ==
    IF isLocalId(id)
    THEN IF db.localStore[id] = NoRow THEN NoRev ELSE db.localStore[id].rev
    ELSE IF db.docStore[id] = NoRow THEN NoRev ELSE db.docStore[id].rev

\* Input i is the last one of the request reported ok for its id.
LastOkFor(i) ==
    /\ last.results[i].ok
    /\ \A j \in LastDocs :
          (j > i /\ last.docs[j].id = last.docs[i].id) => ~last.results[j].ok

\* C39: every ok result of _bulkDocs reports the revision that write
\* stored: right after the batch the document row (the local row, for a
\* local id) of the id holds exactly the reported rev, unless a later entry
\* of the batch was also reported ok for that id.
C39_ReportedRevStored ==
    \A i \in LastDocs :
        LastOkFor(i) => HeldRev(last.docs[i].id) = last.results[i].rev

\* A request updated a stored local document and was reported ok.
C39_Witness ==
    \E i \in LastDocs :
        /\ LastOkFor(i)
        /\ last.docs[i].id \in LocalIds
        /\ last.pre.localStore[last.docs[i].id] # NoRow
        /\ db.localStore[last.docs[i].id] # last.pre.localStore[last.docs[i].id]

\* -------------------------------------------------- openDB / closeDB claims

\* openDB and closeDB calls on two database names.
CacheNext ==
    \/ \E name \in DbNames, fails \in BOOLEAN : openDB(name, fails)
    \/ \E name \in DbNames : closeDB(name)

CacheSpec == Init /\ [][CacheNext]_vars

\* The engine handles constructed for the name and not closed.
OpenHandles(name) ==
    {k \in 1..Len(opened) : opened[k] = name /\ k \notin closedHandles}

\* C40: openDB keeps at most one engine handle and one TransactionQueue per
\* database name: openDB calls with the same name return the same handle
\* and queue until closeDB(name), after which the next openDB opens a fresh
\* pair; openDB never returns a handle that closeDB has closed.
C40_OneHandlePerName ==
    /\ \A name \in DbNames : Cardinality(OpenHandles(name)) <= 1
    /\ lastOpen.found # NoResult => lastOpen.result = lastOpen.found
    /\ (lastOpen.name # "none" /\ lastOpen.found = NoResult
        /\ "db" \in DOMAIN lastOpen.result)
           => \A k \in 1..Len(opened) :
                 (opened[k] = lastOpen.name /\ k # lastOpen.result.db)
                     => k \in closedHandles
    /\ ~lastOpen.closed

\* A name was opened, closed and opened again, and the last openDB call
\* returned the cached pair of the second opening.
C40_Witness ==
    /\ lastOpen.found # NoResult
    /\ "db" \in DOMAIN lastOpen.result
    /\ \E k \in closedHandles : opened[k] = lastOpen.name
    /\ OpenHandles(lastOpen.name) = {lastOpen.result.db}

====
